---- MODULE Spec2Model ----
(***************************************************************************)
(* interledger-stream, crypto.rs: the PSK primitives of the STREAM         *)
(* protocol.  Conditions and fulfillments, random conditions and tokens,   *)
(* and the AES-256-GCM envelope  nonce . tag . body.                       *)
(*                                                                         *)
(* The functions of crypto.rs are operators on byte sequences; a caller    *)
(* process invokes them one at a time (one action per function) and takes  *)
(* the result (Return).  A panic ends the process.                         *)
(*                                                                         *)
(* ring's primitives are idealised, keeping their shape: a digest is 32    *)
(* bytes computed by absorbing the input into a state and squeezing it,    *)
(* HMAC is the nested keyed digest, the AEAD is a counter-mode keystream   *)
(* XORed onto the data plus a 16-byte tag computed by a polynomial MAC of  *)
(* the ciphertext over a prime field, masked by key and nonce.             *)
(***************************************************************************)
EXTENDS Integers, Sequences, FiniteSets, TLC

VARIABLES pc, op, arg, ret, locals, fills, memo

vars == <<pc, op, arg, ret, locals, fills, memo>>

----------------------------------------------------------------------------
(* Constants of crypto.rs *)

NONCE_LENGTH == 12

AUTH_TAG_LENGTH == 16

\* b"ilp_stream_encryption"
ENCRYPTION_KEY_STRING ==
    <<105, 108, 112, 95, 115, 116, 114, 101, 97, 109, 95,
      101, 110, 99, 114, 121, 112, 116, 105, 111, 110>>

\* b"ilp_stream_fulfillment"
FULFILLMENT_GENERATION_STRING ==
    <<105, 108, 112, 95, 115, 116, 114, 101, 97, 109, 95,
      102, 117, 108, 102, 105, 108, 108, 109, 101, 110, 116>>

\* The fixtures of the test modules
SHARED_SECRET ==
    <<126, 219, 117, 93, 118, 248, 249, 211, 20, 211, 65, 110, 237, 80, 253, 179,
      81, 146, 229, 67, 231, 49, 92, 127, 254, 230, 144, 102, 103, 166, 150, 36>>

DATA ==
    <<119, 248, 213, 234, 63, 200, 224, 140, 212, 222, 105, 159, 246, 203, 66, 155,
      151, 172, 68, 24, 76, 232, 90, 10, 237, 146, 189, 73, 248, 196, 177, 108,
      115, 223>>

PLAINTEXT == <<99, 0, 12, 255, 77, 31>>

NONCE == <<119, 248, 213, 234, 63, 200, 224, 140, 212, 222, 105, 159>>

----------------------------------------------------------------------------
(* Bounds of the model *)

\* longest plaintext sealed (prefixes of PLAINTEXT)
MaxPlainLen == 3

\* longest data given to generate_fulfillment (prefixes of DATA)
MaxDataLen == 1

\* longest envelope of arbitrary content given to decrypt
MaxJunkLen == 29

\* reads of the random source in one run
MaxFills == 1

----------------------------------------------------------------------------
(* Bytes *)

Zeros(n) == [i \in 1..n |-> 0]

Min(a, b) == IF a < b THEN a ELSE b

Take(s, n) == SubSeq(s, 1, Min(n, Len(s)))

Drop(s, n) == SubSeq(s, n + 1, Len(s))

RECURSIVE XorBits(_, _, _)
XorBits(a, b, n) ==
    IF n = 0 THEN 0
    ELSE (((a % 2) + (b % 2)) % 2) + 2 * XorBits(a \div 2, b \div 2, n - 1)

Xor(a, b) == XorBits(a, b, 8)

RECURSIVE Pow2(_)
Pow2(n) == IF n = 0 THEN 1 ELSE 2 * Pow2(n - 1)

\* envelope s with bit b (0..7) of byte i flipped
FlipBit(s, i, b) == [s EXCEPT ![i] = Xor(s[i], Pow2(b))]

----------------------------------------------------------------------------
(* ring::digest, ring::hmac, idealised *)

Prime == 32768 - 19

\* the bytes s[lo..hi] absorbed into state h, in order
RECURSIVE AbsorbRange(_, _, _, _)
AbsorbRange(h, s, lo, hi) ==
    IF lo > hi THEN h
    ELSE IF lo = hi THEN (h * 257 + s[lo] + 1) % Prime
    ELSE LET mid  == (lo + hi) \div 2
             left == AbsorbRange(h, s, lo, mid)
         IN  IF left >= 0 THEN AbsorbRange(left, s, mid + 1, hi) ELSE left

Absorb(h, s) == AbsorbRange(h, s, 1, Len(s))

\* n bytes squeezed out of state h
Squeeze(h, n) == [i \in 1..n |-> (((h + i) * (251 + 2 * i)) % Prime) % 256]

\* digest::digest(&digest::SHA256, preimage), copied into [u8; 32]
hash_sha256(preimage) ==
    Squeeze(Absorb(Absorb(17, preimage), <<Len(preimage) % 256>>), 32)

\* hmac::sign(&hmac::Key::new(HMAC_SHA256, key), message), copied into [u8; 32]
hmac_sha256(key, message) ==
    hash_sha256(<<92>> \o key \o hash_sha256(<<54>> \o key \o message))

----------------------------------------------------------------------------
(* ring::aead AES_256_GCM, idealised *)

\* aead::UnboundKey::new(&aead::AES_256_GCM, key) is Ok for a 32-byte key only
UnboundKey_new(key) == Len(key) = 32

\* counter mode: the same operation encrypts and decrypts
Ctr(key, nonce, data) ==
    LET ks == Squeeze(Absorb(Absorb(29, key), nonce), Len(data))
    IN  [i \in 1..Len(data) |-> Xor(data[i], ks[i])]

RECURSIVE PolyFrom(_, _, _, _)
PolyFrom(y, hk, ct, i) ==
    IF i > Len(ct) THEN y
    ELSE PolyFrom(((y + ct[i]) * hk) % Prime, hk, ct, i + 1)

\* the 16-byte tag of ciphertext ct (empty associated data)
Tag(key, nonce, ct) ==
    LET hk   == 1 + (Absorb(31, key) % (Prime - 1))
        y    == ((PolyFrom(0, hk, ct, 1) + Len(ct)) * hk) % Prime
        core == <<y % 256, y \div 256>> \o Squeeze(y, AUTH_TAG_LENGTH - 2)
        mask == Squeeze(Absorb(Absorb(37, key), nonce), AUTH_TAG_LENGTH)
    IN  [i \in 1..AUTH_TAG_LENGTH |-> (core[i] + mask[i]) % 256]

\* key.seal_in_place_append_tag(nonce, aad, &mut in_out): in_out afterwards
seal_in_place_append_tag(key, nonce, in_out) ==
    LET ct == Ctr(key, nonce, in_out)
    IN  ct \o Tag(key, nonce, ct)

\* key.open_in_place(nonce, aad, &mut in_out): Err, or Ok with the plaintext
\* at the front of in_out
open_in_place(key, nonce, in_out) ==
    IF Len(in_out) < AUTH_TAG_LENGTH
    THEN [ok |-> FALSE, in_out |-> in_out, len |-> 0]
    ELSE LET n  == Len(in_out) - AUTH_TAG_LENGTH
             ct == Take(in_out, n)
         IN  IF Tag(key, nonce, ct) = Drop(in_out, n)
             THEN [ok |-> TRUE, in_out |-> Ctr(key, nonce, ct) \o Drop(in_out, n),
                   len |-> n]
             ELSE [ok |-> FALSE, in_out |-> in_out, len |-> 0]

----------------------------------------------------------------------------
(* bytes::BytesMut *)

\* buf.split_off(at): buf keeps [0, at), the result is [at, len); panics
\* when at is out of bounds
split_off(buf, at) ==
    [panic |-> at > Len(buf), self |-> Take(buf, at), out |-> Drop(buf, at)]

\* buf.split_to(at): the result is [0, at), buf keeps [at, len); panics
\* when at is out of bounds
split_to(buf, at) ==
    [panic |-> at > Len(buf), self |-> Drop(buf, at), out |-> Take(buf, at)]

\* buf.unsplit(other)
unsplit(buf, other) == buf \o other

\* buf.truncate(len)
truncate(buf, len) == IF len < Len(buf) THEN Take(buf, len) ELSE buf

----------------------------------------------------------------------------
(* What a call leaves behind: its result, and the values it computed on    *)
(* the way (the label and key it derived, the nonce and tag it handled,    *)
(* the buffer as sealed, the primitives it called, the random read).       *)

NoLocals ==
    [label |-> <<>>, key |-> <<>>, nonce |-> <<>>, auth_tag |-> <<>>,
     sealed |-> <<>>, calls |-> <<>>, fill |-> "unused"]

\* kind: "Ok" (a value, or Result::Ok), "Err" (Result::Err(())), "panic"
Outcome(kind, bytes, loc) == [kind |-> kind, bytes |-> bytes, locals |-> loc]

----------------------------------------------------------------------------
(* Faulty variants of the functions of crypto.rs, each the slip named in   *)
(* its comment.  The properties below must tell them from the originals.   *)

\* the condition is the fulfillment itself: the sha256 is forgotten
generate_condition_unhashed(shared_secret, data) ==
    LET key == hmac_sha256(shared_secret, FULFILLMENT_GENERATION_STRING)
    IN  Outcome("Ok", hmac_sha256(key, data),
                [NoLocals EXCEPT !.label = FULFILLMENT_GENERATION_STRING,
                                 !.key = key,
                                 !.calls = <<"hmac_sha256", "hmac_sha256">>])

\* the fulfillment depends on how often the random source was read before
generate_fulfillment_stateful(shared_secret, data) ==
    LET key == hmac_sha256(shared_secret, FULFILLMENT_GENERATION_STRING)
    IN  Outcome("Ok", hmac_sha256(key, data \o <<fills>>),
                [NoLocals EXCEPT !.label = FULFILLMENT_GENERATION_STRING,
                                 !.key = key,
                                 !.calls = <<"hmac_sha256", "hmac_sha256">>])

\* the result of fill is dropped: a failed read returns the zeroed buffer
random_condition_unchecked(rnd) ==
    Outcome("Ok", rnd.buf,
            [NoLocals EXCEPT !.calls = <<"fill">>,
                             !.fill = IF rnd.ok THEN "ok" ELSE "failed"])

\* bug = "tag_last": the tag is left where the seal appended it;
\* bug = "fulfillment_key": the key is derived with the fulfillment label
encrypt_with_nonce_faulty(shared_secret, plaintext, nonce, bug) ==
    LET label  == IF bug = "fulfillment_key" THEN FULFILLMENT_GENERATION_STRING
                  ELSE ENCRYPTION_KEY_STRING
        key    == hmac_sha256(shared_secret, label)
        sealed == seal_in_place_append_tag(key, nonce, plaintext)
        sp     == split_off(sealed, Len(sealed) - AUTH_TAG_LENGTH)
        tag_data == IF bug = "tag_last" THEN sealed ELSE unsplit(sp.out, sp.self)
    IN  Outcome("Ok", unsplit(nonce, tag_data),
                [NoLocals EXCEPT !.label = label, !.key = key, !.nonce = nonce,
                                 !.sealed = sealed, !.auth_tag = sp.out,
                                 !.calls = <<"hmac_sha256", "UnboundKey::new",
                                             "seal_in_place_append_tag">>])

encrypt_with_nonce_tag_last(shared_secret, plaintext, nonce) ==
    encrypt_with_nonce_faulty(shared_secret, plaintext, nonce, "tag_last")

encrypt_with_nonce_fulfillment_key(shared_secret, plaintext, nonce) ==
    encrypt_with_nonce_faulty(shared_secret, plaintext, nonce, "fulfillment_key")

\* bug = "no_truncate":    the opened buffer is returned with the tag on it
\* bug = "unchecked":      a failed open returns the buffer as it is
\* bug = "key_from_label": the key is derived from the label alone
\* bug = "late_guard":     the length is checked after the key is derived
\* bug = "strict_tag":     split_to(AUTH_TAG_LENGTH), whatever remains
decrypt_faulty(shared_secret, ciphertext, bug) ==
    LET key == hmac_sha256(IF bug = "key_from_label" THEN <<>> ELSE shared_secret,
                           ENCRYPTION_KEY_STRING)
        loc == [NoLocals EXCEPT !.label = ENCRYPTION_KEY_STRING, !.key = key]
        s1  == split_to(ciphertext, NONCE_LENGTH)
        s2  == split_to(s1.self, IF bug = "strict_tag" THEN AUTH_TAG_LENGTH
                                 ELSE Min(AUTH_TAG_LENGTH, Len(s1.self)))
        in_out == unsplit(s2.self, s2.out)
        opened == open_in_place(key, s1.out, in_out)
        done == [loc EXCEPT !.nonce = s1.out, !.auth_tag = s2.out, !.sealed = in_out,
                            !.calls = <<"hmac_sha256", "UnboundKey::new", "split_to",
                                        "split_to", "open_in_place">>]
    IN  IF Len(ciphertext) < AUTH_TAG_LENGTH
        THEN Outcome("Err", <<>>,
                     IF bug = "late_guard"
                     THEN [loc EXCEPT !.calls = <<"hmac_sha256", "UnboundKey::new">>]
                     ELSE NoLocals)
        ELSE IF s2.panic
        THEN Outcome("panic", <<>>,
                     [loc EXCEPT !.nonce = s1.out,
                                 !.calls = <<"hmac_sha256", "UnboundKey::new",
                                             "split_to", "split_to">>])
        ELSE IF ~opened.ok
        THEN (IF bug = "unchecked"
              THEN Outcome("Ok", truncate(in_out, Len(in_out) - AUTH_TAG_LENGTH), done)
              ELSE Outcome("Err", <<>>, done))
        ELSE Outcome("Ok",
                     IF bug = "no_truncate" THEN opened.in_out
                     ELSE truncate(opened.in_out, opened.len),
                     done)

decrypt_no_truncate(shared_secret, ciphertext) ==
    decrypt_faulty(shared_secret, ciphertext, "no_truncate")

decrypt_unchecked(shared_secret, ciphertext) ==
    decrypt_faulty(shared_secret, ciphertext, "unchecked")

decrypt_key_from_label(shared_secret, ciphertext) ==
    decrypt_faulty(shared_secret, ciphertext, "key_from_label")

decrypt_late_guard(shared_secret, ciphertext) ==
    decrypt_faulty(shared_secret, ciphertext, "late_guard")

decrypt_strict_tag(shared_secret, ciphertext) ==
    decrypt_faulty(shared_secret, ciphertext, "strict_tag")

----------------------------------------------------------------------------
(* crypto.rs *)

generate_fulfillment(shared_secret, data) ==
    LET key == hmac_sha256(shared_secret, FULFILLMENT_GENERATION_STRING)
    IN  Outcome("Ok", hmac_sha256(key, data),
                [NoLocals EXCEPT !.label = FULFILLMENT_GENERATION_STRING,
                                 !.key = key,
                                 !.calls = <<"hmac_sha256", "hmac_sha256">>])

generate_condition(shared_secret, data) ==
    LET fulfillment == generate_fulfillment(shared_secret, data)
    IN  Outcome("Ok", hash_sha256(fulfillment.bytes),
                [fulfillment.locals EXCEPT !.calls = Append(@, "hash_sha256")])

\* rnd: what SystemRandom::new().fill(&mut buf) did, [ok, buf]
random_condition(rnd) ==
    LET condition_slice == Zeros(32)
        loc == [NoLocals EXCEPT !.calls = <<"fill">>,
                                !.fill = IF rnd.ok THEN "ok" ELSE "failed"]
    IN  IF ~rnd.ok THEN Outcome("panic", <<>>, loc)
        ELSE Outcome("Ok", rnd.buf, loc)

generate_token(rnd) ==
    LET token == Zeros(18)
        loc == [NoLocals EXCEPT !.calls = <<"fill">>,
                                !.fill = IF rnd.ok THEN "ok" ELSE "failed"]
    IN  IF ~rnd.ok THEN Outcome("panic", <<>>, loc)
        ELSE Outcome("Ok", rnd.buf, loc)

encrypt_with_nonce(shared_secret, plaintext, nonce) ==
    LET key    == hmac_sha256(shared_secret, ENCRYPTION_KEY_STRING)
        sealed == seal_in_place_append_tag(key, nonce, plaintext)
        loc    == [NoLocals EXCEPT !.label = ENCRYPTION_KEY_STRING,
                                   !.key = key, !.nonce = nonce]
    IN  IF ~UnboundKey_new(key)
        THEN Outcome("panic", <<>>,
                     [loc EXCEPT !.calls = <<"hmac_sha256", "UnboundKey::new">>])
        ELSE IF Len(sealed) < AUTH_TAG_LENGTH
        THEN Outcome("panic", <<>>,
                     [loc EXCEPT !.sealed = sealed,
                                 !.calls = <<"hmac_sha256", "UnboundKey::new",
                                             "seal_in_place_append_tag">>])
        ELSE LET auth_tag_position == Len(sealed) - AUTH_TAG_LENGTH
                 sp                == split_off(sealed, auth_tag_position)
                 tag_data          == unsplit(sp.out, sp.self)
                 nonce_tag_data    == unsplit(nonce, tag_data)
             IN  Outcome("Ok", nonce_tag_data,
                         [loc EXCEPT !.sealed = sealed, !.auth_tag = sp.out,
                                     !.calls = <<"hmac_sha256", "UnboundKey::new",
                                                 "seal_in_place_append_tag">>])

encrypt(shared_secret, plaintext, rnd) ==
    LET nonce == Zeros(NONCE_LENGTH)
    IN  IF ~rnd.ok
        THEN Outcome("panic", <<>>,
                     [NoLocals EXCEPT !.calls = <<"fill">>, !.fill = "failed"])
        ELSE LET r == encrypt_with_nonce(shared_secret, plaintext, rnd.buf)
             IN  [r EXCEPT !.locals.calls = <<"fill">> \o @, !.locals.fill = "ok"]

decrypt(shared_secret, ciphertext) ==
    IF Len(ciphertext) < AUTH_TAG_LENGTH
    THEN Outcome("Err", <<>>, NoLocals)
    ELSE
    LET key == hmac_sha256(shared_secret, ENCRYPTION_KEY_STRING)
        loc == [NoLocals EXCEPT !.label = ENCRYPTION_KEY_STRING, !.key = key]
        s1  == split_to(ciphertext, NONCE_LENGTH)
        nonce == s1.out
        s2  == split_to(s1.self, Min(AUTH_TAG_LENGTH, Len(s1.self)))
        auth_tag == s2.out
        in_out == unsplit(s2.self, auth_tag)
        opened == open_in_place(key, nonce, in_out)
    IN  IF ~UnboundKey_new(key)
        THEN Outcome("panic", <<>>,
                     [loc EXCEPT !.calls = <<"hmac_sha256", "UnboundKey::new">>])
        ELSE IF s1.panic
        THEN Outcome("panic", <<>>,
                     [loc EXCEPT !.calls = <<"hmac_sha256", "UnboundKey::new",
                                             "split_to">>])
        ELSE IF s2.panic
        THEN Outcome("panic", <<>>,
                     [loc EXCEPT !.nonce = nonce,
                                 !.calls = <<"hmac_sha256", "UnboundKey::new",
                                             "split_to", "split_to">>])
        ELSE LET done == [loc EXCEPT !.nonce = nonce, !.auth_tag = auth_tag,
                                     !.sealed = in_out,
                                     !.calls = <<"hmac_sha256", "UnboundKey::new",
                                                 "split_to", "split_to",
                                                 "open_in_place">>]
             IN  IF ~opened.ok
                 THEN Outcome("Err", <<>>, done)
                 ELSE Outcome("Ok", truncate(opened.in_out, opened.len), done)

----------------------------------------------------------------------------
(* The inputs the caller draws from *)

Secrets == {SHARED_SECRET, <<>>}

Plaintexts == {Take(PLAINTEXT, n) : n \in 0..MaxPlainLen}

Datas == {Take(DATA, n) : n \in 0..MaxDataLen}

Nonces == {NONCE, Zeros(NONCE_LENGTH)}

\* SystemRandom::new().fill(&mut buf) for a buffer of n bytes: an error that
\* leaves the zeroed buffer, or n bytes (all zero is one possible draw)
Fill(n) ==
    {[ok |-> FALSE, buf |-> Zeros(n)]}
        \cup {[ok |-> TRUE, buf |-> b] : b \in {Zeros(n), Take(DATA, n)}}

NoSrc == [origin |-> "none", secret |-> <<>>, plaintext |-> <<>>, at |-> 0, bit |-> 0]

NoArg == [secret |-> <<>>, data |-> <<>>, nonce |-> <<>>, src |-> NoSrc]

NoValue == [kind |-> "none", bytes |-> <<>>]

\* the envelope encrypt_with_nonce returns
Envelope(s, p, n) == encrypt_with_nonce(s, p, n).bytes

\* envelopes as sealed
SealedInputs ==
    {[bytes |-> Envelope(s, p, n),
      src |-> [origin |-> "sealed", secret |-> s, plaintext |-> p, at |-> 0, bit |-> 0]] :
        s \in Secrets, p \in Plaintexts, n \in Nonces}

\* an envelope sealed under SHARED_SECRET with one bit of its tag or body
\* flipped
FlippedInputs ==
    UNION {{[bytes |-> FlipBit(Envelope(SHARED_SECRET, p, NONCE), i, b),
             src |-> [origin |-> "flipped", secret |-> SHARED_SECRET, plaintext |-> p,
                      at |-> i, bit |-> b]] :
                 i \in (NONCE_LENGTH + 1)..Len(Envelope(SHARED_SECRET, p, NONCE)),
                 b \in 0..7} :
           p \in Plaintexts}

\* a sealed envelope cut short
TruncatedInputs ==
    UNION {UNION {{[bytes |-> Take(Envelope(s, p, NONCE), k),
                    src |-> [origin |-> "truncated", secret |-> s, plaintext |-> p,
                             at |-> k, bit |-> 0]] :
                        k \in 0..(Len(Envelope(s, p, NONCE)) - 1)} :
                  p \in Plaintexts} :
           s \in Secrets}

\* envelopes of arbitrary length, every byte the same
JunkInputs ==
    {[bytes |-> [i \in 1..k |-> v],
      src |-> [origin |-> "junk", secret |-> <<>>, plaintext |-> <<>>, at |-> k, bit |-> 0]] :
        k \in 0..MaxJunkLen, v \in {0, 255}}

EnvelopeInputs == SealedInputs \cup FlippedInputs \cup TruncatedInputs \cup JunkInputs

----------------------------------------------------------------------------
(* The caller *)

NoMemo == [op |-> "none", secret |-> <<>>, data |-> <<>>, bytes |-> <<>>, fills |-> 0]

Init ==
    /\ pc = "idle"
    /\ op = "none"
    /\ arg = NoArg
    /\ ret = NoValue
    /\ locals = NoLocals
    /\ fills = 0
    /\ memo = NoMemo

\* the call o(a) came back as r (or panicked)
Called(o, a, r) ==
    /\ pc' = IF r.kind = "panic" THEN "aborted" ELSE "returned"
    /\ op' = o
    /\ arg' = a
    /\ ret' = IF r.kind = "panic" THEN NoValue ELSE [kind |-> r.kind, bytes |-> r.bytes]
    /\ locals' = r.locals

\* the caller may keep the first fulfillment or condition it is given, to
\* compare later ones with
Remember(o, a, r) ==
    memo' \in {memo} \cup
              (IF memo = NoMemo
               THEN {[op |-> o, secret |-> a.secret, data |-> a.data,
                      bytes |-> r.bytes, fills |-> fills]}
               ELSE {})

GenerateFulfillment ==
    /\ pc = "idle"
    /\ \E s \in Secrets, d \in Datas :
          LET a == [NoArg EXCEPT !.secret = s, !.data = d]
              r == generate_fulfillment(s, d)
          IN  /\ Called("generate_fulfillment", a, r)
              /\ Remember("generate_fulfillment", a, r)
    /\ UNCHANGED fills

GenerateCondition ==
    /\ pc = "idle"
    /\ \E s \in Secrets, d \in Datas :
          LET a == [NoArg EXCEPT !.secret = s, !.data = d]
              r == generate_condition(s, d)
          IN  /\ Called("generate_condition", a, r)
              /\ Remember("generate_condition", a, r)
    /\ UNCHANGED fills

RandomCondition ==
    /\ pc = "idle"
    /\ fills < MaxFills
    /\ \E rnd \in Fill(32) : Called("random_condition", NoArg, random_condition(rnd))
    /\ fills' = fills + 1
    /\ UNCHANGED memo

GenerateToken ==
    /\ pc = "idle"
    /\ fills < MaxFills
    /\ \E rnd \in Fill(18) : Called("generate_token", NoArg, generate_token(rnd))
    /\ fills' = fills + 1
    /\ UNCHANGED memo

Encrypt ==
    /\ pc = "idle"
    /\ fills < MaxFills
    /\ \E s \in Secrets, p \in Plaintexts, rnd \in Fill(NONCE_LENGTH) :
          Called("encrypt", [NoArg EXCEPT !.secret = s, !.data = p], encrypt(s, p, rnd))
    /\ fills' = fills + 1
    /\ UNCHANGED memo

EncryptWithNonce ==
    /\ pc = "idle"
    /\ \E s \in Secrets, p \in Plaintexts, n \in Nonces :
          Called("encrypt_with_nonce",
                 [NoArg EXCEPT !.secret = s, !.data = p, !.nonce = n],
                 encrypt_with_nonce(s, p, n))
    /\ UNCHANGED <<fills, memo>>

\* a tampered or shortened envelope is given back under the secret it was
\* sealed with, the others under any secret
Decrypt ==
    /\ pc = "idle"
    /\ \E s \in Secrets, e \in EnvelopeInputs :
          /\ e.src.origin \in {"flipped", "truncated"} => s = e.src.secret
          /\ Called("decrypt",
                    [NoArg EXCEPT !.secret = s, !.data = e.bytes, !.src = e.src],
                    decrypt(s, e.bytes))
    /\ UNCHANGED <<fills, memo>>

\* the caller has taken the result and is ready for the next call
Return ==
    /\ pc = "returned"
    /\ pc' = "idle"
    /\ op' = "none"
    /\ arg' = NoArg
    /\ ret' = NoValue
    /\ locals' = NoLocals
    /\ UNCHANGED <<fills, memo>>

Next ==
    \/ GenerateFulfillment
    \/ GenerateCondition
    \/ RandomCondition
    \/ GenerateToken
    \/ Encrypt
    \/ EncryptWithNonce
    \/ Decrypt
    \/ Return

Spec == Init /\ [][Next]_vars

----------------------------------------------------------------------------
(* Properties *)

Returned(o) == pc = "returned" /\ op = o

OVERHEAD == NONCE_LENGTH + AUTH_TAG_LENGTH

\* Err(()) returned at the length guard, before anything else was done
FormatError == ret = [kind |-> "Err", bytes |-> <<>>] /\ locals = NoLocals

\* Err(()) returned because open_in_place refused the buffer
AuthenticationError ==
    /\ ret = [kind |-> "Err", bytes |-> <<>>]
    /\ locals.calls # <<>>
    /\ locals.calls[Len(locals.calls)] = "open_in_place"

\* C1: Round-trip. The envelope encrypt or encrypt_with_nonce returned for
\* (secret, plaintext), whatever the nonce, decrypts under the same secret to
\* Ok with exactly the plaintext (the empty one included); and decrypt, given
\* an envelope as sealed for its secret, returned Ok with that plaintext.
RoundTrip ==
    /\ (pc = "returned" /\ op \in {"encrypt", "encrypt_with_nonce"})
          => LET d == decrypt(arg.secret, ret.bytes)
             IN  /\ ret.kind = "Ok"
                 /\ d.kind = "Ok"
                 /\ Len(d.bytes) = Len(arg.data)
                 /\ d.bytes = arg.data
    /\ (Returned("decrypt") /\ arg.src.origin = "sealed" /\ arg.src.secret = arg.secret)
          => ret = [kind |-> "Ok", bytes |-> arg.src.plaintext]

RoundTripReached ==
    /\ Returned("decrypt")
    /\ arg.src.origin = "sealed"
    /\ arg.src.secret = arg.secret
    /\ arg.src.plaintext = Take(PLAINTEXT, MaxPlainLen)
    /\ ret.kind = "Ok"

\* C2: Wire layout. The envelope returned for a plaintext of n bytes has
\* n + 28 bytes: the nonce in bytes 0..12, in bytes 12..28 the 16-byte tag the
\* seal appended after the ciphertext, and from byte 28 the n ciphertext
\* bytes in their order.
WireLayout ==
    (pc = "returned" /\ op \in {"encrypt", "encrypt_with_nonce"})
        => LET n      == Len(arg.data)
               e      == ret.bytes
               sealed == locals.sealed
           IN  /\ Len(e) = n + OVERHEAD
               /\ Len(locals.nonce) = NONCE_LENGTH
               /\ (op = "encrypt_with_nonce" => locals.nonce = arg.nonce)
               /\ SubSeq(e, 1, NONCE_LENGTH) = locals.nonce
               /\ sealed = seal_in_place_append_tag(locals.key, locals.nonce, arg.data)
               /\ Len(sealed) = n + AUTH_TAG_LENGTH
               /\ SubSeq(e, NONCE_LENGTH + 1, OVERHEAD) = SubSeq(sealed, n + 1, n + AUTH_TAG_LENGTH)
               /\ SubSeq(e, OVERHEAD + 1, OVERHEAD + n) = SubSeq(sealed, 1, n)

WireLayoutReached ==
    /\ Returned("encrypt_with_nonce")
    /\ arg.secret = SHARED_SECRET
    /\ arg.nonce = NONCE
    /\ Len(arg.data) = MaxPlainLen
    /\ Len(ret.bytes) = MaxPlainLen + OVERHEAD

\* C3: Tamper detection. An envelope that is a sealed envelope with one bit
\* flipped in its tag or its ciphertext makes decrypt fail, with the failure
\* of the authenticated open.
TamperDetection ==
    (Returned("decrypt") /\ arg.src.origin = "flipped") => AuthenticationError

TamperReached ==
    /\ Returned("decrypt")
    /\ arg.src.origin = "flipped"
    /\ arg.src.secret = arg.secret
    /\ arg.src.at > OVERHEAD
    /\ arg.src.bit = 7
    /\ AuthenticationError

\* C4: Authenticity of success. decrypt returns Ok(p) only after the open
\* verified the tag, that is only for the envelope nonce . tag . body that
\* sealing p under the key of the same secret, with the envelope's nonce,
\* produces; every other return is Err and carries no bytes.
AuthenticSuccess ==
    Returned("decrypt")
        => /\ ret.kind \in {"Ok", "Err"}
           /\ ret.kind = "Ok"
                 => /\ Len(arg.data) >= OVERHEAD
                    /\ locals.calls[Len(locals.calls)] = "open_in_place"
                    /\ arg.data = Envelope(arg.secret, ret.bytes, Take(arg.data, NONCE_LENGTH))
           /\ ret.kind = "Err" => ret.bytes = <<>>

AuthenticSuccessReached ==
    /\ Returned("decrypt")
    /\ arg.src.origin = "sealed"
    /\ arg.src.secret # arg.secret
    /\ Len(arg.data) > OVERHEAD
    /\ ret.kind = "Err"

\* C5: Length guard. An envelope shorter than 16 bytes is rejected with the
\* failure of the length guard: no key was derived, no nonce or tag taken,
\* no cipher called.
LengthGuard ==
    (op = "decrypt" /\ Len(arg.data) < 16)
        => /\ pc = "returned"
           /\ FormatError
           /\ locals.calls = <<>>
           /\ locals.key = <<>>

LengthGuardReached ==
    /\ Returned("decrypt")
    /\ arg.src.origin = "truncated"
    /\ Len(arg.data) = 15
    /\ FormatError

\* C6: Hash-lock relation. generate_condition returns the sha256 of the
\* fulfillment of the same (secret, data), also of the one the caller was
\* given before; generate_fulfillment returns
\* hmac_sha256(hmac_sha256(secret, "ilp_stream_fulfillment"), data).
HashLock ==
    /\ Returned("generate_fulfillment")
          => ret = [kind |-> "Ok",
                    bytes |-> hmac_sha256(hmac_sha256(arg.secret,
                                                      FULFILLMENT_GENERATION_STRING),
                                          arg.data)]
    /\ Returned("generate_condition")
          => /\ ret = [kind |-> "Ok",
                       bytes |-> hash_sha256(
                                    hmac_sha256(hmac_sha256(arg.secret,
                                                            FULFILLMENT_GENERATION_STRING),
                                                arg.data))]
             /\ Len(ret.bytes) = 32
             /\ (memo.op = "generate_fulfillment" /\ memo.secret = arg.secret
                    /\ memo.data = arg.data)
                   => ret.bytes = hash_sha256(memo.bytes)

HashLockReached ==
    /\ Returned("generate_condition")
    /\ memo.op = "generate_fulfillment"
    /\ memo.secret = arg.secret
    /\ memo.data = arg.data
    /\ arg.secret = SHARED_SECRET
    /\ arg.data # <<>>

FatalEntropyFailure ==
    /\ locals.fill = "failed" => (pc = "aborted" /\ ret = NoValue)
    /\ (pc = "returned" /\ op \in {"encrypt", "random_condition", "generate_token"})
          => locals.fill = "ok"
    /\ pc = "aborted" => ret = NoValue

EntropyFailureReached ==
    /\ pc = "aborted"
    /\ op = "random_condition"
    /\ locals.fill = "failed"
    /\ ret = NoValue

\* C9: Key independence. For one secret the key derived with the encryption
\* label differs from the key derived with the fulfillment label; encrypt,
\* encrypt_with_nonce and decrypt derive theirs with the encryption label only,
\* generate_fulfillment and generate_condition with the fulfillment label only.
KeyIndependence ==
    /\ (op \in {"encrypt", "encrypt_with_nonce", "decrypt"} /\ locals.key # <<>>)
          => /\ locals.label = ENCRYPTION_KEY_STRING
             /\ locals.key = hmac_sha256(arg.secret, ENCRYPTION_KEY_STRING)
             /\ locals.key # hmac_sha256(arg.secret, FULFILLMENT_GENERATION_STRING)
    /\ op \in {"generate_fulfillment", "generate_condition"}
          => /\ locals.label = FULFILLMENT_GENERATION_STRING
             /\ locals.key = hmac_sha256(arg.secret, FULFILLMENT_GENERATION_STRING)
             /\ locals.key # hmac_sha256(arg.secret, ENCRYPTION_KEY_STRING)

KeyIndependenceReached ==
    /\ Returned("encrypt")
    /\ arg.secret = SHARED_SECRET
    /\ locals.label = ENCRYPTION_KEY_STRING
    /\ Len(locals.key) = 32

====
